---- MODULE Spec2Model ----
(***************************************************************************)
(* A model of the chip8-engine crate: the Machine (heap, stack, registers, *)
(* timers, display, quirks) and its single operation Machine::tick, which  *)
(* fetches, decodes and executes one instruction per call.                 *)
(***************************************************************************)
EXTENDS Integers, Sequences, FiniteSets, TLC

(***************************************************************************)
(* Program constants.                                                      *)
(***************************************************************************)
MEMORY_SIZE == 4096
SIGILS_LENGTH == 80
OFFSET_FONT == 80
OFFSET_DATA == 512
GENERAL_REGISTER_COUNT == 16
FLAG_REGISTER_IDX == 15
MAX_ELEMENTS == 16
PIXELS_H == 64
PIXELS_V == 32
BUFFER_SIZE == PIXELS_H * PIXELS_V

FONT_SIGILS ==
    << 240, 144, 144, 144, 240,
       32, 96, 32, 32, 112,
       240, 16, 240, 128, 240,
       240, 16, 240, 16, 240,
       144, 144, 240, 16, 16,
       240, 128, 240, 16, 240,
       240, 128, 240, 144, 240,
       240, 16, 32, 64, 64,
       240, 144, 240, 144, 240,
       240, 144, 240, 16, 240,
       240, 144, 240, 144, 144,
       224, 144, 224, 144, 224,
       240, 128, 128, 128, 240,
       224, 144, 144, 144, 224,
       240, 128, 240, 128, 240,
       240, 128, 240, 128, 128 >>

(***************************************************************************)
(* Bounds of the model.                                                    *)
(***************************************************************************)
\* Machine::tick is called at most MaxSteps times in a run.
MaxSteps == 6
\* Register operands of the generated programs are 0..MaxLowReg and the flag
\* register.
MaxLowReg == 1
\* Byte operands are 0..MaxSmall, 255-MaxSmall..255, the two values around the
\* sign bit and 3.
MaxSmall == 1
\* Pressed keys are drawn from 0..MaxKey, in vectors of at most MaxKeys keys.
MaxKey == 1
MaxKeys == 2
MaxTimerSteps == 20
MaxCalls == 17
MaxStackSteps == 18
MaxDrawSteps == 10

(***************************************************************************)
(* u8 arithmetic.                                                          *)
(***************************************************************************)
Byte == 0..255

Pow2(i) == 2^i

BitAt(v, i) == (v \div Pow2(i)) % 2

WrappingAdd(a, b) == (a + b) % 256

WrappingSub(a, b) == (a - b + 256) % 256

BitOr(a, b) ==
    LET t(i) == (IF BitAt(a, i) + BitAt(b, i) > 0 THEN 1 ELSE 0) * Pow2(i)
    IN  t(0) + t(1) + t(2) + t(3) + t(4) + t(5) + t(6) + t(7)

BitAnd(a, b) ==
    LET t(i) == (BitAt(a, i) * BitAt(b, i)) * Pow2(i)
    IN  t(0) + t(1) + t(2) + t(3) + t(4) + t(5) + t(6) + t(7)

BitXor(a, b) ==
    LET t(i) == ((BitAt(a, i) + BitAt(b, i)) % 2) * Pow2(i)
    IN  t(0) + t(1) + t(2) + t(3) + t(4) + t(5) + t(6) + t(7)

BoolToU8(enable) == IF enable THEN 1 ELSE 0

(***************************************************************************)
(* word.rs: the big-endian word at pc and its nibbles.                     *)
(***************************************************************************)
\* memory[address] of the sparse array memory (see heap.rs below): an address
\* that holds no entry holds 0.
ByteAt(memory, address) == IF address \in DOMAIN memory THEN memory[address] ELSE 0

WordNew(memory, pc) == ByteAt(memory, pc) * 256 + ByteAt(memory, pc + 1)

WordC(word) == (word \div 4096) % 16
WordX(word) == (word \div 256) % 16
WordY(word) == (word \div 16) % 16
WordN(word) == word % 16
\* WordNN keeping seven bits.
WordNN_SevenBits(word) == word % 128

WordNN(word) == word % 256
WordNNN(word) == word % 4096

(***************************************************************************)
(* instruction.rs: Instruction::new, the decoder.  The caller checks the   *)
(* assertion pc + 1 < memory.len() (InstructionNewPanics).                 *)
(***************************************************************************)
InstructionNewPanics(pc) == ~(pc + 1 < MEMORY_SIZE)

DecodeFamily0(word) ==
    CASE WordNNN(word) \in {0, 222} -> [op |-> "EndProgram"]
      [] WordNNN(word) = 224 -> [op |-> "ClearScreen"]
      [] WordNNN(word) = 238 -> [op |-> "ReturnSubroutine"]
      [] OTHER -> [op |-> "Unimplemented", opcode |-> word]

DecodeFamily8(word) ==
    LET register_to == WordX(word)
        register_from == WordY(word)
        operands(name) ==
            [op |-> name, register_to |-> register_to, register_from |-> register_from]
    IN  CASE WordN(word) = 0 -> operands("RegistersCopy")
          [] WordN(word) = 1 -> operands("RegistersOrEq")
          [] WordN(word) = 2 -> operands("RegistersAndEq")
          [] WordN(word) = 3 -> operands("RegistersXorEq")
          [] WordN(word) = 4 -> operands("RegistersAdd")
          [] WordN(word) = 5 -> operands("RegistersSub")
          [] WordN(word) = 6 -> operands("RegistersShiftRightEq")
          [] WordN(word) = 7 -> operands("RegistersSubReversed")
          [] WordN(word) = 14 -> operands("RegistersShiftLeftEq")
          [] OTHER -> [op |-> "Unimplemented", opcode |-> word]

DecodeFamilyE(word) ==
    CASE WordNN(word) = 158 -> [op |-> "SkipIfKeyOn", register |-> WordX(word)]
      [] WordNN(word) = 161 -> [op |-> "SkipIfKeyOff", register |-> WordX(word)]
      [] OTHER -> [op |-> "Unimplemented", opcode |-> word]

DecodeFamilyF(word) ==
    LET register == WordX(word)
    IN  CASE WordNN(word) = 7 -> [op |-> "DelayTimerToRegister", register |-> register]
          [] WordNN(word) = 10 -> [op |-> "WaitForAnyKey", register |-> register]
          [] WordNN(word) = 21 -> [op |-> "RegisterToDelayTimer", register |-> register]
          [] WordNN(word) = 24 -> [op |-> "RegisterToSoundTimer", register |-> register]
          [] WordNN(word) = 30 -> [op |-> "IAddOffset", register |-> register]
          [] WordNN(word) = 41 -> [op |-> "IStoreDigitAddress", register |-> register]
          [] WordNN(word) = 51 -> [op |-> "HexToDecimal", register |-> register]
          [] WordNN(word) = 85 -> [op |-> "RegistersDump", max_register |-> register]
          [] WordNN(word) = 101 -> [op |-> "RegistersLoad", max_register |-> register]
          [] OTHER -> [op |-> "Unimplemented", opcode |-> word]

\* DecodeRegisterSkip taking only the words that end in 0 for skips.
DecodeRegisterSkip_LowNibbleZero(word, name) ==
    IF WordN(word) = 0
    THEN [op |-> name, register_x |-> WordX(word), register_y |-> WordY(word)]
    ELSE [op |-> "Unimplemented", opcode |-> word]

\* The families 0x5 and 0x9: the skips that compare two registers.
DecodeRegisterSkip(word, name) ==
    [op |-> name, register_x |-> WordX(word), register_y |-> WordY(word)]

InstructionNew(memory, pc) ==
    LET word == WordNew(memory, pc)
    IN  CASE WordC(word) = 0 -> DecodeFamily0(word)
          [] WordC(word) = 1 -> [op |-> "Goto", address |-> WordNNN(word)]
          [] WordC(word) = 2 -> [op |-> "CallSubroutine", address |-> WordNNN(word)]
          [] WordC(word) = 3 ->
                [op |-> "SkipIfValueEq", register |-> WordX(word), value |-> WordNN(word)]
          [] WordC(word) = 4 ->
                [op |-> "SkipIfValueNe", register |-> WordX(word), value |-> WordNN(word)]
          [] WordC(word) = 5 -> DecodeRegisterSkip(word, "SkipIfRegistersEq")
          [] WordC(word) = 6 ->
                [op |-> "RegisterValueStore", register |-> WordX(word),
                 value |-> WordNN(word)]
          [] WordC(word) = 7 ->
                [op |-> "RegisterValueAdd", register |-> WordX(word),
                 value |-> WordNN(word)]
          [] WordC(word) = 8 -> DecodeFamily8(word)
          [] WordC(word) = 9 -> DecodeRegisterSkip(word, "SkipIfRegistersNe")
          [] WordC(word) = 10 -> [op |-> "IStoreAddress", address |-> WordNNN(word)]
          [] WordC(word) = 11 -> [op |-> "GotoOffsetted", address |-> WordNNN(word)]
          [] WordC(word) = 12 ->
                [op |-> "RegisterStoreRandom", register |-> WordX(word),
                 mask |-> WordNN(word)]
          [] WordC(word) = 13 ->
                [op |-> "DrawSprite", register_x |-> WordX(word),
                 register_y |-> WordY(word), sprite_height |-> WordN(word)]
          [] WordC(word) = 14 -> DecodeFamilyE(word)
          [] WordC(word) = 15 -> DecodeFamilyF(word)

(***************************************************************************)
(* registers.rs: the methods of Registers, as functions of the general     *)
(* register array (Register values are the validated indices 0..15).       *)
(***************************************************************************)
get_value(general, register) == general[register]

set_value(general, register, value) == [general EXCEPT ![register] = value]

set_flag(general, enable) == set_value(general, FLAG_REGISTER_IDX, BoolToU8(enable))

\* add_value writing the carry into the flag register as add_registers does.
add_value_SetsCarry(general, register, value) ==
    set_value(set_flag(general, get_value(general, register) + value > 255), register,
              WrappingAdd(get_value(general, register), value))

add_value(general, register, value) ==
    set_value(general, register, WrappingAdd(get_value(general, register), value))

copy_registers(general, to, from) == set_value(general, to, get_value(general, from))

\* or_registers resetting the flag register after the store.
or_registers_ResetsFlag(general, to, from) ==
    set_flag(set_value(general, to,
                       BitOr(get_value(general, to), get_value(general, from))), FALSE)

or_registers(general, to, from) ==
    set_value(general, to, BitOr(get_value(general, to), get_value(general, from)))

and_registers(general, to, from) ==
    set_value(general, to, BitAnd(get_value(general, to), get_value(general, from)))

xor_registers(general, to, from) ==
    set_value(general, to, BitXor(get_value(general, to), get_value(general, from)))

\* add_registers with the carry taken from 255 on.
add_registers_CarryAt255(general, to, from) ==
    LET to_val == get_value(general, to)
        from_val == get_value(general, from)
    IN  set_value(set_flag(general, to_val + from_val >= 255), to,
                  WrappingAdd(to_val, from_val))

add_registers(general, to, from) ==
    LET to_val == get_value(general, to)
        from_val == get_value(general, from)
    IN  set_value(set_flag(general, to_val + from_val > 255), to,
                  WrappingAdd(to_val, from_val))

\* sub_registers with a borrow reported for equal operands.
sub_registers_StrictBorrow(general, to, from) ==
    LET to_val == get_value(general, to)
        from_val == get_value(general, from)
    IN  set_value(set_flag(general, to_val - from_val > 0), to,
                  WrappingSub(to_val, from_val))

sub_registers(general, to, from) ==
    LET to_val == get_value(general, to)
        from_val == get_value(general, from)
    IN  set_value(set_flag(general, to_val - from_val >= 0), to,
                  WrappingSub(to_val, from_val))

sub_registers_reversed(general, to, from) ==
    LET to_val == get_value(general, to)
        from_val == get_value(general, from)
    IN  set_value(set_flag(general, from_val - to_val >= 0), to,
                  WrappingSub(from_val, to_val))

\* shr_registers with the quirk read the wrong way round.
shr_registers_QuirkInverted(general, to, from, is_lazy_shift) ==
    LET from_val == IF is_lazy_shift THEN get_value(general, from)
                    ELSE get_value(general, to)
    IN  set_value(set_flag(general, BitAt(from_val, 0) # 0), to, from_val \div 2)

shr_registers(general, to, from, is_lazy_shift) ==
    LET from_val == IF ~is_lazy_shift THEN get_value(general, from)
                    ELSE get_value(general, to)
    IN  set_value(set_flag(general, BitAt(from_val, 0) # 0), to, from_val \div 2)

\* shl_registers with the flag taken from bit 6.
shl_registers_FlagFromBit6(general, to, from, is_lazy_shift) ==
    LET from_val == IF ~is_lazy_shift THEN get_value(general, from)
                    ELSE get_value(general, to)
    IN  set_value(set_flag(general, BitAt(from_val, 6) # 0), to, (from_val * 2) % 256)

shl_registers(general, to, from, is_lazy_shift) ==
    LET from_val == IF ~is_lazy_shift THEN get_value(general, from)
                    ELSE get_value(general, to)
    IN  set_value(set_flag(general, BitAt(from_val, 7) # 0), to, (from_val * 2) % 256)

\* The slice general[0..=max_register], as a sequence.
\* dump taking the registers below max_register only, general[0..max_register].
dump_BelowMax(general, max_register) == [i \in 1..max_register |-> general[i - 1]]

dump(general, max_register) == [i \in 1..(max_register + 1) |-> general[i - 1]]

\* load clearing the registers it has no byte for.
load_ClearsRest(general, bytes) ==
    [i \in 0..(GENERAL_REGISTER_COUNT - 1) |->
        IF i < Len(bytes) THEN bytes[i + 1] ELSE 0]

load(general, bytes) ==
    [i \in 0..(GENERAL_REGISTER_COUNT - 1) |->
        IF i < Len(bytes) THEN bytes[i + 1] ELSE general[i]]

(***************************************************************************)
(* stack.rs: a stack is [elements, pointer]; push and pop assert.          *)
(***************************************************************************)
StackNew == [elements |-> [i \in 0..(MAX_ELEMENTS - 1) |-> 0], pointer |-> 0]

\* push_panics letting one more frame in.
push_panics_OneMoreFrame(stack) == ~(stack.pointer <= MAX_ELEMENTS)

push_panics(stack) == ~(stack.pointer < MAX_ELEMENTS)

push(stack, program_counter) ==
    [elements |-> [stack.elements EXCEPT ![stack.pointer] = program_counter],
     pointer |-> stack.pointer + 1]

pop_panics(stack) == ~(stack.pointer > 0)

\* The stack after pop; the value popped is pop_value.
pop(stack) == [stack EXCEPT !.pointer = stack.pointer - 1]

pop_value(stack) == stack.elements[stack.pointer - 1]

(***************************************************************************)
(* timers.rs                                                               *)
(***************************************************************************)
TimersNew == [delay |-> 0, sound |-> 0, time_until_tick |-> 0]

\* TimersTick decrementing as u8::wrapping_sub does, without the test for 0.
TimersTick_Wrapping(timers) ==
    IF timers.time_until_tick # 0
    THEN [timers EXCEPT !.time_until_tick = timers.time_until_tick - 1]
    ELSE [delay |-> (timers.delay + 255) % 256,
          sound |-> (timers.sound + 255) % 256,
          time_until_tick |-> 8]

TimersTick(timers) ==
    IF timers.time_until_tick # 0
    THEN [timers EXCEPT !.time_until_tick = timers.time_until_tick - 1]
    ELSE [delay |-> IF timers.delay > 0 THEN timers.delay - 1 ELSE timers.delay,
          sound |-> IF timers.sound > 0 THEN timers.sound - 1 ELSE timers.sound,
          time_until_tick |-> 8]

(***************************************************************************)
(* heap.rs: elements, the array [u8; MEMORY_SIZE], is kept as the function *)
(* of its non-zero bytes: address a holds elements[a] when a is in the     *)
(* domain and 0 when it is not.  Every array has exactly one such          *)
(* function, so two memories are equal iff their functions are.            *)
(***************************************************************************)
ZeroedElements == [a \in {} |-> 0]

set_byte_panics(index) == ~(index < MEMORY_SIZE)

set_byte(elements, index, value) ==
    IF value = 0 THEN [a \in (DOMAIN elements) \ {index} |-> elements[a]]
    ELSE (index :> value) @@ elements

\* The loop "for i in 0..values.len()" that stores values[i] at base + i.
store_all(elements, base, values) ==
    LET written == base..(base + Len(values) - 1)
        stored(a) == IF a \in written THEN values[a - base + 1] ELSE elements[a]
    IN  [a \in { x \in (DOMAIN elements) \cup written : stored(x) # 0 } |-> stored(a)]

\* HeapNew storing the font sigils at the start of the memory.
HeapNew_FontAtZero(program_bytes) ==
    store_all(store_all(ZeroedElements, 0, FONT_SIGILS), OFFSET_DATA, program_bytes)

\* Heap::new: the zeroed array, the font sigils, then the program.
HeapNew(program_bytes) ==
    store_all(store_all(ZeroedElements, OFFSET_FONT, FONT_SIGILS),
              OFFSET_DATA, program_bytes)

set_bytes_panics(index, values) ==
    \E i \in 0..(Len(values) - 1) : set_byte_panics(index + i)

set_bytes(elements, index, values) == store_all(elements, index, values)

set_as_decimal_panics(index) == \E i \in 0..2 : set_byte_panics(index + i)

\* set_as_decimal storing value / 10 as the second digit.
set_as_decimal_TensUnreduced(elements, index, value) ==
    set_byte(set_byte(set_byte(elements, index, value \div 100),
                      index + 1, value \div 10),
             index + 2, (value % 100) % 10)

set_as_decimal(elements, index, value) ==
    set_byte(set_byte(set_byte(elements, index, value \div 100),
                      index + 1, (value \div 10) % 10),
             index + 2, (value % 100) % 10)

\* get_bytes with the bound of the exclusive slice elements[index..(index + len)].
get_bytes_panics_Exclusive(index, len) == ~(index + len <= MEMORY_SIZE)

\* elements[index..=(index + len)]: the slice panics when it passes the end.
get_bytes_panics(index, len) == ~(index + len < MEMORY_SIZE)

get_bytes(elements, index, len) ==
    [i \in 1..(len + 1) |-> ByteAt(elements, index + i - 1)]

\* elements[index..end] with end = index + sprite_height.
get_sprite_panics(index, sprite_height) == ~(index + sprite_height <= MEMORY_SIZE)

get_sprite(elements, index, sprite_height) ==
    [i \in 1..sprite_height |-> ByteAt(elements, index + i - 1)]

(***************************************************************************)
(* display.rs: bits is the set of the indices of the set pixels of the     *)
(* array [bool; BUFFER_SIZE].                                              *)
(***************************************************************************)
DisplayNew == {}

clear(bits) == {}

\* set_pixel setting the pixel instead of toggling it.
set_pixel_Sets(bits, x, y, value) ==
    IF x < PIXELS_H /\ y < PIXELS_V
    THEN LET idx == (PIXELS_H * y) + x
         IN  [bits |-> IF value THEN bits \cup {idx} ELSE bits,
              is_collision |-> (idx \in bits) /\ value]
    ELSE [bits |-> bits, is_collision |-> FALSE]

\* set_pixel wrapping the coordinates around the grid.
set_pixel_Wraps(bits, x, y, value) ==
    LET idx == (PIXELS_H * (y % PIXELS_V)) + (x % PIXELS_H)
    IN  [bits |-> IF value
                  THEN (IF idx \in bits THEN bits \ {idx} ELSE bits \cup {idx})
                  ELSE bits,
         is_collision |-> (idx \in bits) /\ value]

\* set_pixel returns [bits, is_collision].
set_pixel(bits, x, y, value) ==
    IF x < PIXELS_H /\ y < PIXELS_V
    THEN LET idx == (PIXELS_H * y) + x
         IN  [bits |-> IF value
                       THEN (IF idx \in bits THEN bits \ {idx} ELSE bits \cup {idx})
                       ELSE bits,
              is_collision |-> (idx \in bits) /\ value]
    ELSE [bits |-> bits, is_collision |-> FALSE]

\* render_sprite taking the least significant bit of a row for its leftmost pixel.
render_sprite_LowBitLeftmost(bits, start_x, start_y, sprite) ==
    LET cells == (0..7) \X (0..(Len(sprite) - 1))
        is_lit(c) == BitAt(sprite[c[2] + 1], c[1]) # 0
        drawn(c) == set_pixel(bits, start_x + c[1], start_y + c[2], is_lit(c))
        turned_on == UNION { drawn(c).bits \ bits : c \in cells }
        turned_off == UNION { bits \ drawn(c).bits : c \in cells }
    IN  [bits |-> (bits \ turned_off) \cup turned_on,
         is_collision |-> \E c \in cells : drawn(c).is_collision]

\* The two nested loops of render_sprite.  The cells << x, y >> of a sprite
\* address different pixels, so each call of set_pixel finds its pixel as it
\* was before the loops: the calls are taken on the bits the loops start from
\* and their changes put together.
render_sprite(bits, start_x, start_y, sprite) ==
    LET cells == (0..7) \X (0..(Len(sprite) - 1))
        is_lit(c) == BitAt(sprite[c[2] + 1], 7 - c[1]) # 0
        drawn(c) == set_pixel(bits, start_x + c[1], start_y + c[2], is_lit(c))
        turned_on == UNION { drawn(c).bits \ bits : c \in cells }
        turned_off == UNION { bits \ drawn(c).bits : c \in cells }
    IN  [bits |-> (bits \ turned_off) \cup turned_on,
         is_collision |-> \E c \in cells : drawn(c).is_collision]

(***************************************************************************)
(* quirks.rs                                                               *)
(***************************************************************************)
QuirksActive == [is_lazy_shift |-> TRUE, is_static_dump_index |-> TRUE]

QuirksInactive == [is_lazy_shift |-> FALSE, is_static_dump_index |-> FALSE]

QuirksFromFlag(is_active) == IF is_active THEN QuirksActive ELSE QuirksInactive

(***************************************************************************)
(* The state of a Machine, and of the run around it.                       *)
(***************************************************************************)
VARIABLES
    heap,             \* Heap.elements
    stack,            \* Stack: [elements, pointer]
    general,          \* Registers.general
    index,            \* Registers.index
    program_counter,  \* Registers.program_counter
    timers,           \* Timers: [delay, sound, time_until_tick]
    bits,             \* Display.bits, as the set of the set pixels
    quirks,           \* Quirks: [is_lazy_shift, is_static_dump_index]
    fault,            \* a panic has ended the machine
    steps,            \* the number of calls of tick that returned
    executed,         \* the instruction the last call of tick decoded
    before,           \* the machine and the keys_pressed that call found
    loaded,           \* the program_bytes Machine::new was given
    decayed           \* per timer, the calls of tick that decremented it since
                      \* an instruction last wrote it

vars == << heap, stack, general, index, program_counter, timers, bits, quirks,
           fault, steps, executed, before, loaded, decayed >>

(***************************************************************************)
(* machine.rs: Machine::tick.  The handlers work on a record w of the      *)
(* machine's components and the locals pc and pause of tick; panic is set  *)
(* where a handler hits an assertion or a slice bound.                     *)
(***************************************************************************)
Panic(w) == [w EXCEPT !.panic = TRUE]

\* ExecUnimplemented ending the machine.
ExecUnimplemented_Panics(w) == Panic(w)

\* Unimplemented: a warning is logged.
ExecUnimplemented(w) == w

ExecReturnSubroutine(w) ==
    IF pop_panics(w.stack) THEN Panic(w)
    ELSE [w EXCEPT !.stack = pop(w.stack), !.pc = pop_value(w.stack) + 2]

ExecGoto(w, address) ==
    IF w.pc = address THEN [w EXCEPT !.pause = TRUE]
    ELSE [w EXCEPT !.pc = address]

ExecCallSubroutine(w, address) ==
    IF push_panics(w.stack) THEN Panic(w)
    ELSE [w EXCEPT !.stack = push(w.stack, w.pc), !.pc = address]

\* ExecSkipIf skipping by one word only.
ExecSkipIf_OneWord(w, condition) ==
    IF condition THEN [w EXCEPT !.pc = w.pc + 2] ELSE w

\* The four register and value skips, and the two key skips, given their condition.
ExecSkipIf(w, condition) ==
    IF condition THEN [w EXCEPT !.pc = w.pc + 4] ELSE w

\* ExecGotoOffsetted with the target wrapped into the memory.
ExecGotoOffsetted_Wrapped(w, address) ==
    LET offset == get_value(w.general, 0)
        adjusted_address == (address + offset) % MEMORY_SIZE
    IN  IF w.pc = adjusted_address THEN [w EXCEPT !.pause = TRUE]
        ELSE [w EXCEPT !.pc = adjusted_address]

ExecGotoOffsetted(w, address) ==
    LET offset == get_value(w.general, 0)
        adjusted_address == address + offset
    IN  IF w.pc = adjusted_address THEN [w EXCEPT !.pause = TRUE]
        ELSE [w EXCEPT !.pc = adjusted_address]

ExecDrawSprite(w, register_x, register_y, sprite_height) ==
    IF get_sprite_panics(w.index, sprite_height) THEN Panic(w)
    ELSE LET sprite == get_sprite(w.heap, w.index, sprite_height)
             x == get_value(w.general, register_x)
             y == get_value(w.general, register_y)
             r == render_sprite(w.bits, x, y, sprite)
         IN  [w EXCEPT !.bits = r.bits, !.general = set_flag(w.general, r.is_collision)]

\* keys_pressed.contains(&value)
Contains(keys_pressed, value) == \E i \in 1..Len(keys_pressed) : keys_pressed[i] = value

ExecWaitForAnyKey(w, register, keys_pressed) ==
    IF Len(keys_pressed) = 0 THEN [w EXCEPT !.pause = TRUE]
    ELSE [w EXCEPT !.pause = FALSE,
                   !.general = set_value(w.general, register, keys_pressed[1])]

ExecHexToDecimal(w, register) ==
    IF set_as_decimal_panics(w.index) THEN Panic(w)
    ELSE [w EXCEPT !.heap = set_as_decimal(w.heap, w.index, get_value(w.general, register))]

ExecRegistersDump(w, max_register) ==
    IF set_bytes_panics(w.index, dump(w.general, max_register)) THEN Panic(w)
    ELSE [w EXCEPT !.heap = set_bytes(w.heap, w.index, dump(w.general, max_register)),
                   !.index = IF ~w.quirks.is_static_dump_index
                             THEN w.index + max_register + 1 ELSE w.index]

ExecRegistersLoad(w, max_register) ==
    IF get_bytes_panics(w.index, max_register) THEN Panic(w)
    ELSE [w EXCEPT !.general = load(w.general, get_bytes(w.heap, w.index, max_register)),
                   !.index = IF ~w.quirks.is_static_dump_index
                             THEN w.index + max_register + 1 ELSE w.index]

\* The match of tick: the effect of one instruction.  random is the byte that
\* fastrand::u8(..) returns.
Execute(w, i, keys_pressed, random) ==
    CASE i.op = "Unimplemented" -> ExecUnimplemented(w)
      [] i.op = "EndProgram" -> [w EXCEPT !.pause = TRUE]
      [] i.op = "ClearScreen" -> [w EXCEPT !.bits = clear(w.bits)]
      [] i.op = "ReturnSubroutine" -> ExecReturnSubroutine(w)
      [] i.op = "Goto" -> ExecGoto(w, i.address)
      [] i.op = "CallSubroutine" -> ExecCallSubroutine(w, i.address)
      [] i.op = "SkipIfValueEq" ->
            ExecSkipIf(w, get_value(w.general, i.register) = i.value)
      [] i.op = "SkipIfValueNe" ->
            ExecSkipIf(w, get_value(w.general, i.register) # i.value)
      [] i.op = "SkipIfRegistersEq" ->
            ExecSkipIf(w, get_value(w.general, i.register_x)
                            = get_value(w.general, i.register_y))
      [] i.op = "RegisterValueStore" ->
            [w EXCEPT !.general = set_value(w.general, i.register, i.value)]
      [] i.op = "RegisterValueAdd" ->
            [w EXCEPT !.general = add_value(w.general, i.register, i.value)]
      [] i.op = "RegistersCopy" ->
            [w EXCEPT !.general = copy_registers(w.general, i.register_to, i.register_from)]
      [] i.op = "RegistersOrEq" ->
            [w EXCEPT !.general = or_registers(w.general, i.register_to, i.register_from)]
      [] i.op = "RegistersAndEq" ->
            [w EXCEPT !.general = and_registers(w.general, i.register_to, i.register_from)]
      [] i.op = "RegistersXorEq" ->
            [w EXCEPT !.general = xor_registers(w.general, i.register_to, i.register_from)]
      [] i.op = "RegistersAdd" ->
            [w EXCEPT !.general = add_registers(w.general, i.register_to, i.register_from)]
      [] i.op = "RegistersSub" ->
            [w EXCEPT !.general = sub_registers(w.general, i.register_to, i.register_from)]
      [] i.op = "RegistersShiftRightEq" ->
            [w EXCEPT !.general = shr_registers(w.general, i.register_to, i.register_from,
                                                w.quirks.is_lazy_shift)]
      [] i.op = "RegistersSubReversed" ->
            [w EXCEPT !.general =
                sub_registers_reversed(w.general, i.register_to, i.register_from)]
      [] i.op = "RegistersShiftLeftEq" ->
            [w EXCEPT !.general = shl_registers(w.general, i.register_to, i.register_from,
                                                w.quirks.is_lazy_shift)]
      [] i.op = "SkipIfRegistersNe" ->
            ExecSkipIf(w, get_value(w.general, i.register_x)
                            # get_value(w.general, i.register_y))
      [] i.op = "IStoreAddress" -> [w EXCEPT !.index = i.address]
      [] i.op = "GotoOffsetted" -> ExecGotoOffsetted(w, i.address)
      [] i.op = "RegisterStoreRandom" ->
            [w EXCEPT !.general = set_value(w.general, i.register, BitAnd(random, i.mask))]
      [] i.op = "DrawSprite" ->
            ExecDrawSprite(w, i.register_x, i.register_y, i.sprite_height)
      [] i.op = "SkipIfKeyOn" ->
            ExecSkipIf(w, Contains(keys_pressed, get_value(w.general, i.register)))
      [] i.op = "SkipIfKeyOff" ->
            ExecSkipIf(w, ~Contains(keys_pressed, get_value(w.general, i.register)))
      [] i.op = "DelayTimerToRegister" ->
            [w EXCEPT !.general = set_value(w.general, i.register, w.timers.delay)]
      [] i.op = "WaitForAnyKey" -> ExecWaitForAnyKey(w, i.register, keys_pressed)
      [] i.op = "RegisterToDelayTimer" ->
            [w EXCEPT !.timers.delay = get_value(w.general, i.register)]
      [] i.op = "RegisterToSoundTimer" ->
            [w EXCEPT !.timers.sound = get_value(w.general, i.register)]
      [] i.op = "IAddOffset" ->
            [w EXCEPT !.index = w.index + get_value(w.general, i.register)]
      [] i.op = "IStoreDigitAddress" ->
            [w EXCEPT !.index = OFFSET_FONT + (get_value(w.general, i.register) * 5)]
      [] i.op = "HexToDecimal" -> ExecHexToDecimal(w, i.register)
      [] i.op = "RegistersDump" -> ExecRegistersDump(w, i.max_register)
      [] i.op = "RegistersLoad" -> ExecRegistersLoad(w, i.max_register)

\* NextProgramCounter adding the word whenever the machine is not paused.
NextProgramCounter_AlwaysAdvances(pause, pc, old_program_counter) ==
    IF ~pause THEN pc + 2 ELSE pc

\* NextProgramCounter without the pause.
NextProgramCounter_IgnoresPause(pause, pc, old_program_counter) ==
    IF pc = old_program_counter THEN pc + 2 ELSE pc

\* The end of tick: the value stored into registers.program_counter.
NextProgramCounter(pause, pc, old_program_counter) ==
    IF ~pause /\ pc = old_program_counter THEN pc + 2 ELSE pc

\* The machine's components as tick finds them, with its locals pc and pause.
Working ==
    [heap |-> heap, stack |-> stack, general |-> general, index |-> index,
     timers |-> timers, bits |-> bits, quirks |-> quirks,
     pc |-> program_counter, pause |-> FALSE, panic |-> FALSE]

\* What a call of tick finds: the machine and its argument.
Found(keys_pressed) ==
    [heap |-> heap, stack |-> stack, general |-> general, index |-> index,
     program_counter |-> program_counter, timers |-> timers, bits |-> bits,
     keys_pressed |-> keys_pressed]

\* The bytes fastrand::u8(..) can return to this instruction.
RandomBytes(i) == IF i.op = "RegisterStoreRandom" THEN Byte ELSE {0}

\* The key vectors that tell apart the calls of tick on this instruction: only
\* the two key skips and the key wait read keys_pressed.
KeysRead(i, all_keys) ==
    IF i.op \in {"SkipIfKeyOn", "SkipIfKeyOff", "WaitForAnyKey"} THEN all_keys
    ELSE { << >> }

Panicked(i, keys_pressed) ==
    /\ fault' = TRUE
    /\ executed' = i
    /\ before' = Found(keys_pressed)
    /\ UNCHANGED << heap, stack, general, index, program_counter, timers, bits,
                    quirks, steps, loaded, decayed >>

\* The record of the decrements of one timer after a call of tick: the
\* instruction wrote the timer or not, timers.tick found it at was and left it
\* at is.
Decayed(record, written, was, is, call) ==
    LET since_write == IF written THEN << >> ELSE record
    IN  IF is < was THEN Append(since_write, call) ELSE since_write

\* Returned leaving the timers alone when the machine is paused.
Returned_TimersHeldOnPause(i, w, keys_pressed) ==
    /\ heap' = w.heap
    /\ stack' = w.stack
    /\ general' = w.general
    /\ index' = w.index
    /\ bits' = w.bits
    /\ timers' = IF w.pause THEN w.timers ELSE TimersTick(w.timers)
    /\ program_counter' = NextProgramCounter(w.pause, w.pc, program_counter)
    /\ steps' = steps + 1
    /\ executed' = i
    /\ before' = Found(keys_pressed)
    /\ decayed' = decayed
    /\ UNCHANGED << quirks, fault, loaded >>

Returned(i, w, keys_pressed) ==
    /\ heap' = w.heap
    /\ stack' = w.stack
    /\ general' = w.general
    /\ index' = w.index
    /\ bits' = w.bits
    /\ timers' = TimersTick(w.timers)
    /\ program_counter' = NextProgramCounter(w.pause, w.pc, program_counter)
    /\ steps' = steps + 1
    /\ executed' = i
    /\ before' = Found(keys_pressed)
    /\ decayed' =
            [delay |-> Decayed(decayed.delay, i.op = "RegisterToDelayTimer",
                               w.timers.delay, TimersTick(w.timers).delay, steps + 1),
             sound |-> Decayed(decayed.sound, i.op = "RegisterToSoundTimer",
                               w.timers.sound, TimersTick(w.timers).sound, steps + 1)]
    /\ UNCHANGED << quirks, fault, loaded >>

\* One call of tick, for each key vector of all_keys the caller may pass.
tick(all_keys, limit) ==
    /\ ~fault
    /\ steps < limit
    /\ IF InstructionNewPanics(program_counter)
       THEN Panicked([op |-> "None"], << >>)
       ELSE LET instruction == InstructionNew(heap, program_counter)
            IN  \E keys_pressed \in KeysRead(instruction, all_keys),
                   random \in RandomBytes(instruction) :
                    LET w == Execute(Working, instruction, keys_pressed, random)
                    IN  IF w.panic THEN Panicked(instruction, keys_pressed)
                        ELSE Returned(instruction, w, keys_pressed)

(***************************************************************************)
(* The programs and key vectors the runs are built from.                   *)
(***************************************************************************)
\* The word C X Y N, C X NN and C NNN.
WordXYN(c, x, y, n) == c * 4096 + x * 256 + y * 16 + n
WordXNN(c, x, nn) == c * 4096 + x * 256 + nn
WordOfNNN(c, nnn) == c * 4096 + nnn

\* The bytes of a sequence of words, big-endian.
ProgramBytes(words) ==
    [k \in 1..(2 * Len(words)) |->
        IF k % 2 = 1 THEN words[(k + 1) \div 2] \div 256 ELSE words[k \div 2] % 256]

RegisterSamples == (0..MaxLowReg) \cup {FLAG_REGISTER_IDX}

ByteSamples == (0..MaxSmall) \cup ((255 - MaxSmall)..255) \cup {3, 127, 128}

\* 00E0 then 1200, the end-to-end program.
ClearThenJump == { << 224, WordOfNNN(1, OFFSET_DATA) >> }

\* Programs that start at a halting word, and the empty program.
HaltPrograms == { << >>, << 0 >>, << 222 >>, << WordOfNNN(1, OFFSET_DATA) >> }

\* 1NNN at 0x200.
GotoPrograms ==
    { << WordOfNNN(1, nnn) >> : nnn \in {0, OFFSET_DATA + 2, OFFSET_DATA + 4, 4094, 4095} }

\* 60vv then BNNN at 0x202; NNN + vv is the address of the jump for some of them.
GotoOffsettedPrograms ==
    { << WordXNN(6, 0, v), WordOfNNN(11, nnn) >> :
        v \in ByteSamples,
        nnn \in { OFFSET_DATA + 2 - u : u \in ByteSamples } \cup {OFFSET_DATA + 6, 4095} }

\* Calls and returns: a call of its own address, of the next words, a return
\* right behind its call, two nested subroutines, a return with no call.
CallPrograms ==
    { << WordOfNNN(2, nnn) >> : nnn \in {OFFSET_DATA, OFFSET_DATA + 2, OFFSET_DATA + 4} }
    \cup { << WordOfNNN(2, OFFSET_DATA + 2), 238 >>,
           << WordOfNNN(2, OFFSET_DATA + 4), WordOfNNN(1, OFFSET_DATA + 2),
              WordOfNNN(2, OFFSET_DATA + 8), 238, 238 >>,
           << WordOfNNN(2, OFFSET_DATA + 4), 0, WordOfNNN(2, OFFSET_DATA + 2) >>,
           << 238 >> }

\* The instructions on VX and VY tried after 6Xaa and 6Ybb.
RegisterWords(x, y, b) ==
    { WordXNN(3, x, b), WordXNN(4, x, b), WordXYN(5, x, y, 0), WordXYN(9, x, y, 0),
      WordXNN(14, x, 158), WordXNN(14, x, 161),
      WordXYN(8, x, y, 4), WordXYN(8, x, y, 5), WordXYN(8, x, y, 6),
      WordXYN(8, x, y, 7), WordXYN(8, x, y, 14) }

RegisterPrograms ==
    UNION { { << WordXNN(6, x, a), WordXNN(6, y, b), word >> :
                word \in RegisterWords(x, y, b) } :
            << x, y, a, b >> \in RegisterSamples \X RegisterSamples
                                 \X ByteSamples \X ByteSamples }

\* A glyph drawn at (0, 0), then a jump to itself.
DrawPrograms ==
    { << WordOfNNN(10, OFFSET_FONT), WordXYN(13, 0, 1, 5),
         WordOfNNN(1, OFFSET_DATA + 4) >> }

ProgramWords ==
    ClearThenJump \cup HaltPrograms \cup GotoPrograms \cup GotoOffsettedPrograms
    \cup CallPrograms \cup RegisterPrograms \cup DrawPrograms

Programs == { ProgramBytes(words) : words \in ProgramWords }

\* The vectors of pressed keys a caller passes to tick.
RECURSIVE KeyVectors(_)
KeyVectors(n) ==
    IF n = 0 THEN { << >> }
    ELSE KeyVectors(n - 1)
         \cup { Append(v, k) : v \in { u \in KeyVectors(n - 1) : Len(u) = n - 1 },
                               k \in 0..MaxKey }

KeysPressed == KeyVectors(MaxKeys)

(***************************************************************************)
(* Machine::new and the specification.                                     *)
(***************************************************************************)
MachineNew(program_bytes, q) ==
    /\ heap = HeapNew(program_bytes)
    /\ stack = StackNew
    /\ general = [r \in 0..(GENERAL_REGISTER_COUNT - 1) |-> 0]
    /\ index = 0
    /\ program_counter = OFFSET_DATA
    /\ timers = TimersNew
    /\ bits = DisplayNew
    /\ quirks = q
    /\ loaded = program_bytes

\* The machine built from one of the programs, before the first call of tick.
InitFrom(programs) ==
    /\ \E program_bytes \in programs, is_active \in BOOLEAN :
            MachineNew(program_bytes, QuirksFromFlag(is_active))
    /\ fault = FALSE
    /\ steps = 0
    /\ executed = [op |-> "None"]
    /\ before = Found(<< >>)
    /\ decayed = [delay |-> << >>, sound |-> << >>]

Init == InitFrom(Programs)

Next == tick(KeysPressed, MaxSteps)

Spec == Init /\ [][Next]_vars

\* The runs of the copy and bitwise instructions: 6Xaa, 6Ybb, then 8XY0..8XY3.
BitwiseWords(x, y) ==
    { WordXYN(8, x, y, 0), WordXYN(8, x, y, 1), WordXYN(8, x, y, 2), WordXYN(8, x, y, 3) }

BitwisePrograms ==
    { ProgramBytes(words) : words \in
        UNION { { << WordXNN(6, x, a), WordXNN(6, y, b), word >> :
                    word \in BitwiseWords(x, y) } :
                << x, y, a, b >> \in RegisterSamples \X RegisterSamples
                                     \X ByteSamples \X ByteSamples } }

InitBitwise == InitFrom(BitwisePrograms)

\* What follows the write of a timer, from 0x204 on: a jump to itself, the end
\* of the program, a wait for a key, an unimplemented word, a loop of two
\* jumps, a call and its return, a skip, a loop that reads the delay timer.
TimerTails ==
    { << WordOfNNN(1, OFFSET_DATA + 4) >>,
      << 0 >>,
      << WordXNN(15, 0, 10) >>,
      << 291 >>,
      << WordOfNNN(1, OFFSET_DATA + 6), WordOfNNN(1, OFFSET_DATA + 4) >>,
      << WordOfNNN(2, OFFSET_DATA + 8), 0, 238 >>,
      << WordXNN(3, 0, 0), WordOfNNN(1, OFFSET_DATA + 6), WordOfNNN(1, OFFSET_DATA + 8) >>,
      << WordXNN(15, 0, 7), WordOfNNN(1, OFFSET_DATA + 4) >> }

\* 6Xvv, then FX15 or FX18, then one of the tails.
TimerPrograms ==
    { ProgramBytes(<< WordXNN(6, x, v), WordXNN(15, x, t) >> \o tail) :
        x \in RegisterSamples, v \in ByteSamples, t \in {21, 24}, tail \in TimerTails }

InitTimers == InitFrom(TimerPrograms)

NextTimers == tick(KeysPressed, MaxTimerSteps)

SpecTimers == InitTimers /\ [][NextTimers]_vars

\* n calls, each of the word behind it.
CallChain(n) == [k \in 1..n |-> WordOfNNN(2, OFFSET_DATA + 2 * k)]

\* What follows the calls: two returns, a jump to itself, the end of the program.
StackTails(n) ==
    { << 238, 238 >>, << WordOfNNN(1, OFFSET_DATA + 2 * n) >>, << >> }

\* Chains of calls, a call of its own address, and two calls of each other.
StackPrograms ==
    { ProgramBytes(words) : words \in
        UNION { { CallChain(n) \o tail : tail \in StackTails(n) } : n \in 0..MaxCalls }
        \cup { << WordOfNNN(2, OFFSET_DATA) >>,
               << WordOfNNN(2, OFFSET_DATA + 2), WordOfNNN(2, OFFSET_DATA) >> } }

InitStack == InitFrom(StackPrograms)

NextStack == tick(KeysPressed, MaxStackSteps)

SpecStack == InitStack /\ [][NextStack]_vars

\* 6Xaa, then a key skip or a wait for a key on VX, then a second wait.
KeyWords(x) == { WordXNN(14, x, 158), WordXNN(14, x, 161), WordXNN(15, x, 10) }

KeyPrograms ==
    UNION { { ProgramBytes(<< WordXNN(6, x, a), word, WordXNN(15, 0, 10) >>) :
                a \in ByteSamples, word \in KeyWords(x) } :
            x \in RegisterSamples }

InitKeys == InitFrom(KeyPrograms)

SpecKeys == InitKeys /\ [][Next]_vars

\* Where the glyph that is drawn first goes: on the grid, across its corner, off it.
GlyphCoordinates == { << 0, 0 >>, << 61, 30 >>, << 255, 255 >> }

\* The coordinates of the sprite: on the grid, across its edges, off it.
SpriteX == { 0, 1, 57, 63, 64, 255 }
SpriteY == { 0, 1, 18, 31, 32, 255 }

\* The rows of the sprite: the glyphs, the data behind the program (a row
\* 0xFF first), the last bytes of the memory.
SpriteAddresses == { OFFSET_FONT, OFFSET_DATA + 22, MEMORY_SIZE - 6 }

SpriteHeights == { 0, 1, 5, 15 }

\* The registers DXYN takes its coordinates from.
SpriteRegisters == { << 0, 1 >>, << FLAG_REGISTER_IDX, 1 >> }

\* A glyph drawn at (V0, V1), then the sprite at I drawn three times at
\* (VX, VY), the end of the program, and the data.
DrawTwicePrograms ==
    { ProgramBytes(<< WordXNN(6, 0, g[1]), WordXNN(6, 1, g[2]), WordOfNNN(10, OFFSET_FONT),
                      WordXYN(13, 0, 1, 5),
                      WordXNN(6, r[1], x), WordXNN(6, r[2], y), WordOfNNN(10, i),
                      WordXYN(13, r[1], r[2], n), WordXYN(13, r[1], r[2], n),
                      WordXYN(13, r[1], r[2], n), 0, 65409, 15555 >>) :
        g \in GlyphCoordinates, r \in SpriteRegisters, x \in SpriteX, y \in SpriteY,
        i \in SpriteAddresses, n \in SpriteHeights }

InitDraw == InitFrom(DrawTwicePrograms)

NextDraw == tick(KeysPressed, MaxDrawSteps)

SpecDraw == InitDraw /\ [][NextDraw]_vars

\* Words of the families 0x0, 0x8, 0xE and 0xF that are no operation.
UnimplementedWords == { 291, 225, 32783, 32792, 57503, 57760, 61440, 61695 }

\* V0, I, some pixels, the delay timer and a stack frame are set, then the
\* word is executed, then a jump to itself.
UnimplementedPrograms ==
    { ProgramBytes(<< WordXNN(6, 0, a), WordOfNNN(10, OFFSET_FONT), WordXYN(13, 0, 0, 5),
                      WordXNN(15, 0, 21), WordOfNNN(2, OFFSET_DATA + 10), word,
                      WordOfNNN(1, OFFSET_DATA + 12) >>) :
        a \in ByteSamples, word \in UnimplementedWords }

\* 6Fbb, 6Xaa, then 7Xnn.
AddValuePrograms ==
    { ProgramBytes(<< WordXNN(6, FLAG_REGISTER_IDX, b), WordXNN(6, x, a),
                      WordXNN(7, x, nn) >>) :
        b \in {0, 1, 255}, x \in RegisterSamples, a \in ByteSamples, nn \in ByteSamples }

InitFrame == InitFrom(UnimplementedPrograms \cup AddValuePrograms)

SpecFrame == InitFrame /\ [][Next]_vars

\* The memory instructions FX55, FX65, FX33 for X in 0, 1, 15 and D01N for N in
\* 0, 1, 2; FX1E, which moves the index register past the memory; the jumps to
\* the last two addresses.
MemoryWords ==
    UNION { { WordXNN(15, x, 85), WordXNN(15, x, 101), WordXNN(15, x, 51) } :
                x \in {0, 1, FLAG_REGISTER_IDX} }
        \cup { WordXYN(13, 0, 1, n) : n \in 0..2 }
        \cup { WordXNN(15, 0, 30), WordOfNNN(1, MEMORY_SIZE - 2), WordOfNNN(1, MEMORY_SIZE - 1) }

\* The values ANNN gives the index register: the font table, the program
\* itself and the last bytes of the memory.
MemoryAddresses ==
    { OFFSET_FONT, OFFSET_DATA, MEMORY_SIZE - GENERAL_REGISTER_COUNT,
      MEMORY_SIZE - GENERAL_REGISTER_COUNT + 1,
      MEMORY_SIZE - 3, MEMORY_SIZE - 2, MEMORY_SIZE - 1 }

\* 60aa, 6163, 6FC8, ANNN, then two of the memory words.
MemoryPrograms ==
    { ProgramBytes(<< WordXNN(6, 0, a), WordXNN(6, 1, 99), WordXNN(6, FLAG_REGISTER_IDX, 200),
                      WordOfNNN(10, address), first, second >>) :
        a \in {1, 255}, address \in MemoryAddresses,
        first \in MemoryWords, second \in MemoryWords }

\* 60aa, ANNN, F033 for every byte aa.
DecimalPrograms ==
    { ProgramBytes(<< WordXNN(6, 0, a), WordOfNNN(10, address), WordXNN(15, 0, 51) >>) :
        a \in Byte, address \in {OFFSET_DATA + 6, MEMORY_SIZE - 3} }

InitMemory == InitFrom(MemoryPrograms \cup DecimalPrograms)

SpecMemory == InitMemory /\ [][Next]_vars

\* Programs by their length in bytes, up to the whole program region, each
\* byte one more than a multiple of fill, taken as u8.
LoadedPrograms ==
    { [k \in 1..n |-> (k * fill + 1) % 256] :
        n \in {0, 1, 2, 3, SIGILS_LENGTH, MEMORY_SIZE - OFFSET_DATA - 1,
                MEMORY_SIZE - OFFSET_DATA},
        fill \in {0, 1, 7, 255} }

InitLoaded == InitFrom(LoadedPrograms)

SpecLoaded == InitLoaded /\ [][Next]_vars

\* The 16-bit words, each the only word of a program.
WordValues == 0..(256 * 256 - 1)

DecodePrograms == { ProgramBytes(<< word >>) : word \in WordValues }

InitDecode ==
    /\ \E program_bytes \in DecodePrograms : MachineNew(program_bytes, QuirksInactive)
    /\ fault = FALSE
    /\ steps = 0
    /\ executed = [op |-> "None"]
    /\ before = Found(<< >>)
    /\ decayed = [delay |-> << >>, sound |-> << >>]

\* The call of Instruction::new that opens tick, on its own: executed takes
\* the instruction it returns.
Decode ==
    /\ ~fault
    /\ executed.op = "None"
    /\ IF InstructionNewPanics(program_counter)
       THEN fault' = TRUE /\ UNCHANGED executed
       ELSE executed' = InstructionNew(heap, program_counter) /\ UNCHANGED fault
    /\ UNCHANGED << heap, stack, general, index, program_counter, timers, bits,
                    quirks, steps, before, loaded, decayed >>

NextDecode == Decode

SpecDecode == InitDecode /\ [][NextDecode]_vars

SpecBitwise == InitBitwise /\ [][Next]_vars

(***************************************************************************)
(* Properties.  A call of tick that returned left executed (the            *)
(* instruction it decoded) and before (what it found); one that panicked   *)
(* left fault.                                                             *)
(***************************************************************************)
Completed(op) == ~fault /\ executed.op = op

\* The memory Machine::new builds from 00E0 1200; no instruction of that
\* program writes memory.
RunsClearThenJump ==
    heap = HeapNew(ProgramBytes(<< 224, WordOfNNN(1, OFFSET_DATA) >>))

\* C1 as stated: the machine built from 00E0 1200 has, after two calls of tick,
\* a cleared framebuffer and the program counter 0x200, and the program counter
\* is 0x200 after every later call.
C1_ParkedAfterTwoSteps ==
    RunsClearThenJump =>
        /\ steps = 2 => (bits = {} /\ program_counter = OFFSET_DATA)
        /\ steps >= 2 => program_counter = OFFSET_DATA

\* C1 amended: that machine never faults and never pauses: its framebuffer
\* stays cleared and its program counter is 0x200 after every even number of
\* calls of tick (so after two) and 0x202 after every odd number.
C1_LoopsBetweenTwoWords ==
    RunsClearThenJump =>
        /\ ~fault
        /\ bits = {}
        /\ program_counter = IF steps % 2 = 0 THEN OFFSET_DATA ELSE OFFSET_DATA + 2

C1_Witness ==
    /\ RunsClearThenJump
    /\ steps = 3
    /\ Completed("ClearScreen")
    /\ before.program_counter = OFFSET_DATA
    /\ program_counter = OFFSET_DATA + 2

\* C2: a call 2NNN that tick executed at address A without a fault leaves the
\* program counter NNN, A on top of the stack and the stack one frame deeper.
C2_CallSetsCounter ==
    Completed("CallSubroutine") =>
        /\ program_counter = executed.address
        /\ stack.pointer = before.stack.pointer + 1
        /\ stack.elements[stack.pointer - 1] = before.program_counter

\* C3: a return 00EE that tick executed with A on top of the stack leaves the
\* program counter A + 2 and the stack one frame shallower.
C3_ReturnResumesAfterCall ==
    Completed("ReturnSubroutine") =>
        /\ program_counter = before.stack.elements[before.stack.pointer - 1] + 2
        /\ stack.pointer = before.stack.pointer - 1

\* C4: after a jump the program counter is the target, NNN for 1NNN and
\* NNN + V0 (not reduced modulo the memory size) for BNNN, with no word added;
\* a jump to its own address leaves the program counter where it was.
C4_JumpSetsCounter ==
    /\ Completed("Goto") => program_counter = executed.address
    /\ Completed("GotoOffsetted") =>
            program_counter = executed.address + before.general[0]
    /\ (Completed("Goto") /\ executed.address = before.program_counter) =>
            program_counter = before.program_counter
    /\ (Completed("GotoOffsetted")
            /\ executed.address + before.general[0] = before.program_counter) =>
            program_counter = before.program_counter

C4_Witness ==
    /\ Completed("GotoOffsetted")
    /\ before.general[0] > 0
    /\ executed.address + before.general[0] >= MEMORY_SIZE
    /\ program_counter = executed.address + before.general[0]

\* The word at the program counter is a jump to its own address or an
\* end-of-program word.
AtHaltingWord(memory, pc, v0) ==
    /\ ~InstructionNewPanics(pc)
    /\ LET i == InstructionNew(memory, pc)
       IN  \/ i.op = "EndProgram"
           \/ i.op = "Goto" /\ i.address = pc
           \/ i.op = "GotoOffsetted" /\ i.address + v0 = pc

\* C5: a call of tick that finds the program counter at a halting word returns
\* with the program counter, the general registers, the index register, the
\* memory, the stack and the framebuffer as it found them, so still at a
\* halting word.
C5_HaltedStaysHalted ==
    (executed.op # "None"
        /\ AtHaltingWord(before.heap, before.program_counter, before.general[0])) =>
        /\ ~fault
        /\ program_counter = before.program_counter
        /\ general = before.general
        /\ index = before.index
        /\ heap = before.heap
        /\ stack = before.stack
        /\ bits = before.bits
        /\ AtHaltingWord(heap, program_counter, general[0])

C5_Witness ==
    /\ Completed("Goto")
    /\ AtHaltingWord(before.heap, before.program_counter, before.general[0])
    /\ before.bits # {}
    /\ before.index # 0
    /\ bits = before.bits
    /\ program_counter = before.program_counter

SkipOps ==
    { "SkipIfValueEq", "SkipIfValueNe", "SkipIfRegistersEq", "SkipIfRegistersNe",
      "SkipIfKeyOn", "SkipIfKeyOff" }

\* The key of code key is among the pressed keys.
KeyPressed(keys_pressed, key) == key \in { keys_pressed[k] : k \in 1..Len(keys_pressed) }

\* The condition of the skip i, on the registers v and the pressed keys.
SkipCondition(i, v, keys_pressed) ==
    CASE i.op = "SkipIfValueEq" -> v[i.register] = i.value
      [] i.op = "SkipIfValueNe" -> v[i.register] # i.value
      [] i.op = "SkipIfRegistersEq" -> v[i.register_x] = v[i.register_y]
      [] i.op = "SkipIfRegistersNe" -> v[i.register_x] # v[i.register_y]
      [] i.op = "SkipIfKeyOn" -> KeyPressed(keys_pressed, v[i.register])
      [] i.op = "SkipIfKeyOff" -> ~KeyPressed(keys_pressed, v[i.register])

\* C6: each of the six conditional skips advances the program counter by 4
\* when its condition holds and by 2 when it does not, and changes no register,
\* no memory byte, no stack frame and no pixel.
C6_SkipAdvances ==
    (~fault /\ executed.op \in SkipOps) =>
        /\ program_counter = before.program_counter
              + (IF SkipCondition(executed, before.general, before.keys_pressed)
                 THEN 4 ELSE 2)
        /\ general = before.general
        /\ index = before.index
        /\ heap = before.heap
        /\ stack = before.stack
        /\ bits = before.bits

C6_Witness ==
    /\ Completed("SkipIfKeyOn")
    /\ Len(before.keys_pressed) = 2
    /\ before.general[executed.register] = before.keys_pressed[2]
    /\ before.general[executed.register] # before.keys_pressed[1]
    /\ program_counter = before.program_counter + 4

\* old VX + old VY of the register instruction tick executed.
OldX == before.general[executed.register_to]
OldY == before.general[executed.register_from]

\* C7 as stated: after 8XY4, for every X and Y, V15 is 1 iff old VX + old VY
\* exceeds 255 (0 otherwise) and VX is (old VX + old VY) mod 256.
C7_AddSetsCarryAndSum ==
    Completed("RegistersAdd") =>
        /\ general[FLAG_REGISTER_IDX] = (IF OldX + OldY > 255 THEN 1 ELSE 0)
        /\ general[executed.register_to] = (OldX + OldY) % 256

\* C7 amended: after 8XY4 VX is (old VX + old VY) mod 256 for every X and Y,
\* and V15 is 1 iff old VX + old VY exceeds 255 (0 otherwise) when X is not 15;
\* when X is 15 the sum replaces the carry in V15.
C7_AddSetsCarryUnlessFlagTarget ==
    Completed("RegistersAdd") =>
        /\ general[executed.register_to] = (OldX + OldY) % 256
        /\ executed.register_to # FLAG_REGISTER_IDX =>
                general[FLAG_REGISTER_IDX] = (IF OldX + OldY > 255 THEN 1 ELSE 0)

C7_Witness ==
    /\ Completed("RegistersAdd")
    /\ executed.register_to # FLAG_REGISTER_IDX
    /\ executed.register_from # executed.register_to
    /\ OldX + OldY > 255
    /\ general[FLAG_REGISTER_IDX] = 1
    /\ general[executed.register_to] = OldX + OldY - 256

\* C8 as stated: after 8XY5, for every X and Y, V15 is 1 iff old VX >= old VY
\* and VX is (old VX - old VY) mod 256; after 8XY7 V15 is 1 iff old VY >= old VX
\* and VX is (old VY - old VX) mod 256.
C8_SubSetsNoBorrowAndDifference ==
    /\ Completed("RegistersSub") =>
            /\ general[FLAG_REGISTER_IDX] = (IF OldX >= OldY THEN 1 ELSE 0)
            /\ general[executed.register_to] = (OldX - OldY) % 256
    /\ Completed("RegistersSubReversed") =>
            /\ general[FLAG_REGISTER_IDX] = (IF OldY >= OldX THEN 1 ELSE 0)
            /\ general[executed.register_to] = (OldY - OldX) % 256

\* C8 amended: the differences are stored as stated for every X and Y, and V15
\* is the no-borrow flag as stated when X is not 15; when X is 15 the
\* difference replaces the flag in V15.
C8_SubSetsNoBorrowUnlessFlagTarget ==
    /\ Completed("RegistersSub") =>
            /\ general[executed.register_to] = (OldX - OldY) % 256
            /\ executed.register_to # FLAG_REGISTER_IDX =>
                    general[FLAG_REGISTER_IDX] = (IF OldX >= OldY THEN 1 ELSE 0)
    /\ Completed("RegistersSubReversed") =>
            /\ general[executed.register_to] = (OldY - OldX) % 256
            /\ executed.register_to # FLAG_REGISTER_IDX =>
                    general[FLAG_REGISTER_IDX] = (IF OldY >= OldX THEN 1 ELSE 0)

C8_Witness ==
    /\ Completed("RegistersSub")
    /\ executed.register_to # FLAG_REGISTER_IDX
    /\ OldX = OldY
    /\ OldX > 0
    /\ executed.register_from # executed.register_to
    /\ general[FLAG_REGISTER_IDX] = 1
    /\ general[executed.register_to] = 0

ShiftSource == IF quirks.is_lazy_shift THEN OldX ELSE OldY

\* C10 as stated: 8XYE sets V15 to bit 7 of its source and stores
\* (source * 2) mod 256 into VX, for every X and Y.
C10_ShiftLeftSetsHighBit ==
    Completed("RegistersShiftLeftEq") =>
        /\ general[FLAG_REGISTER_IDX] = ShiftSource \div 128
        /\ general[executed.register_to] = (ShiftSource * 2) % 256

\* C10 amended: 8XYE stores (source * 2) mod 256 into VX for every X and Y, and
\* sets V15 to bit 7 of its source when X is not 15; when X is 15 the shifted
\* value replaces the flag in V15.
C10_ShiftLeftUnlessFlagTarget ==
    Completed("RegistersShiftLeftEq") =>
        /\ general[executed.register_to] = (ShiftSource * 2) % 256
        /\ executed.register_to # FLAG_REGISTER_IDX =>
                general[FLAG_REGISTER_IDX] = ShiftSource \div 128

C10_Witness ==
    /\ Completed("RegistersShiftLeftEq")
    /\ ~quirks.is_lazy_shift
    /\ executed.register_to \notin {executed.register_from, FLAG_REGISTER_IDX}
    /\ OldY = 255
    /\ OldX = 0
    /\ general[FLAG_REGISTER_IDX] = 1
    /\ general[executed.register_to] = 254

\* The set bits of a byte, and the byte of a set of bits.
BitsOf(v) == { k \in 0..7 : (v \div Pow2(k)) % 2 = 1 }

ByteOf(set_bits) ==
    LET b(k) == IF k \in set_bits THEN Pow2(k) ELSE 0
    IN  b(0) + b(1) + b(2) + b(3) + b(4) + b(5) + b(6) + b(7)

\* What 8XY0, 8XY1, 8XY2 and 8XY3 are to store into VX.
BitwiseResult(op, vx, vy) ==
    CASE op = "RegistersCopy" -> vy
      [] op = "RegistersOrEq" -> ByteOf(BitsOf(vx) \cup BitsOf(vy))
      [] op = "RegistersAndEq" -> ByteOf(BitsOf(vx) \cap BitsOf(vy))
      [] op = "RegistersXorEq" ->
            ByteOf((BitsOf(vx) \cup BitsOf(vy)) \ (BitsOf(vx) \cap BitsOf(vy)))

BitwiseOps == { "RegistersCopy", "RegistersOrEq", "RegistersAndEq", "RegistersXorEq" }

\* C11: 8XY0, 8XY1, 8XY2 and 8XY3 store VY, VX | VY, VX & VY and VX ^ VY into
\* VX and leave every other general register, the flag register V15 among
\* them, as it was.
C11_BitwiseChangesOnlyTarget ==
    (~fault /\ executed.op \in BitwiseOps) =>
        general = [before.general EXCEPT
                      ![executed.register_to] = BitwiseResult(executed.op, OldX, OldY)]

C11_Witness ==
    /\ Completed("RegistersOrEq")
    /\ executed.register_to = 0
    /\ executed.register_from = FLAG_REGISTER_IDX
    /\ OldX = 3
    /\ OldY = 128
    /\ general[0] = 131
    /\ general[FLAG_REGISTER_IDX] = 128

\* C12: with no write of the timer between them, two consecutive decrements of
\* the delay timer are exactly 8 calls of tick apart, and so are two of the
\* sound timer.
C12_DecaysEveryEighthStep ==
    /\ \A k \in 1..(Len(decayed.delay) - 1) :
            decayed.delay[k + 1] - decayed.delay[k] = 8
    /\ \A k \in 1..(Len(decayed.sound) - 1) :
            decayed.sound[k + 1] - decayed.sound[k] = 8

\* C13: both timers are bytes, and a call of tick that does not execute FX15
\* leaves the delay timer no higher than it found it, so 0 when it found 0; the
\* same for the sound timer and FX18.
C13_TimersOnlyDecrease ==
    /\ timers.delay \in 0..255
    /\ timers.sound \in 0..255
    /\ executed.op # "RegisterToDelayTimer" => timers.delay <= before.timers.delay
    /\ executed.op # "RegisterToSoundTimer" => timers.sound <= before.timers.sound

\* The delay timer, decremented to 0 by an earlier call, is found at 0 by a
\* call whose timers.tick decrements, and left at 0.
C13_Witness ==
    /\ ~fault
    /\ executed.op \notin {"None", "RegisterToDelayTimer", "RegisterToSoundTimer"}
    /\ Len(decayed.delay) = 1
    /\ before.timers.delay = 0
    /\ before.timers.time_until_tick = 0
    /\ timers.delay = 0
    /\ timers.sound = 0

\* The timers the instruction leaves to timers.tick: FX15 and FX18 store VX.
TimersWritten(t, i, v) ==
    CASE i.op = "RegisterToDelayTimer" -> [t EXCEPT !.delay = v[i.register]]
      [] i.op = "RegisterToSoundTimer" -> [t EXCEPT !.sound = v[i.register]]
      [] OTHER -> t

\* The timer component advanced once: the countdown to the next decrement
\* goes down by one, or it is restarted and each non-zero timer decremented.
AdvancedOnce(from, to) ==
    IF from.time_until_tick > 0
    THEN /\ to.time_until_tick = from.time_until_tick - 1
         /\ to.delay = from.delay
         /\ to.sound = from.sound
    ELSE /\ to.time_until_tick > 0
         /\ to.delay = (IF from.delay = 0 THEN 0 ELSE from.delay - 1)
         /\ to.sound = (IF from.sound = 0 THEN 0 ELSE from.sound - 1)

\* C14: every call of tick that returns has advanced the timer component
\* exactly once past the instruction's own effect, whichever instruction it
\* executed and whether or not it paused.
C14_TimersAdvanceEveryStep ==
    (~fault /\ steps > 0) =>
        AdvancedOnce(TimersWritten(before.timers, executed, before.general), timers)

\* A wait for a key that found no key pressed, at a call that decrements.
C14_Witness ==
    /\ Completed("WaitForAnyKey")
    /\ before.keys_pressed = << >>
    /\ program_counter = before.program_counter
    /\ before.timers.time_until_tick = 0
    /\ before.timers.sound > 1
    /\ timers.sound = before.timers.sound - 1

\* C15: the stack holds 0 to 16 frames; a call that finds fewer than 16
\* frames succeeds and adds one, so 16 nested calls succeed; a call that finds
\* 16 frames is a fatal fault, and so is a return that finds none.
C15_StackDiscipline ==
    /\ stack.pointer \in 0..16
    /\ executed.op = "CallSubroutine" =>
            IF before.stack.pointer < 16
            THEN ~fault /\ stack.pointer = before.stack.pointer + 1
            ELSE fault
    /\ (executed.op = "ReturnSubroutine" /\ before.stack.pointer = 0) => fault

\* The 17th nested call, after 16 calls that returned.
C15_Witness ==
    /\ fault
    /\ executed.op = "CallSubroutine"
    /\ steps = 16
    /\ before.stack.pointer = 16
    /\ stack.pointer = 16

\* The key codes of a vector of pressed keys, and the smallest of them.
KeyCodes(keys_pressed) == { keys_pressed[k] : k \in 1..Len(keys_pressed) }

LowestKey(keys_pressed) ==
    CHOOSE key \in KeyCodes(keys_pressed) : \A other \in KeyCodes(keys_pressed) : key <= other

\* C16: a call of tick at FX0A with no key pressed leaves the program counter
\* and the general registers as they were; one with a key pressed stores the
\* smallest pressed key code into VX and advances the program counter by 2.
C16_WaitStoresLowestKey ==
    Completed("WaitForAnyKey") =>
        IF before.keys_pressed = << >>
        THEN /\ program_counter = before.program_counter
             /\ general = before.general
        ELSE /\ program_counter = before.program_counter + 2
             /\ general = [before.general EXCEPT
                              ![executed.register] = LowestKey(before.keys_pressed)]

\* What a call of tick with these pressed keys makes of the machine as it is.
TickOutcome(keys_pressed) ==
    LET w == Execute(Working, InstructionNew(heap, program_counter), keys_pressed, 0)
    IN  IF w.panic THEN [panic |-> TRUE]
        ELSE [panic |-> FALSE, heap |-> w.heap, stack |-> w.stack,
              general |-> w.general, index |-> w.index, bits |-> w.bits,
              timers |-> TimersTick(w.timers),
              program_counter |-> NextProgramCounter(w.pause, w.pc, program_counter)]

\* C17: from any state of the machine, two calls of tick whose key vectors hold
\* the same key codes, in whatever order and with whatever duplicates, leave
\* the same machine.
C17_KeysAreASet ==
    (~fault /\ ~InstructionNewPanics(program_counter)) =>
        \A a \in KeysPressed, b \in KeysPressed :
            KeyCodes(a) = KeyCodes(b) => TickOutcome(a) = TickOutcome(b)

\* Bit col (0 the leftmost, the most significant) of row row of the sprite
\* at address i.
SpriteBit(memory, i, row, col) == (ByteAt(memory, i + row) \div Pow2(7 - col)) % 2 = 1

\* The cells << col, row >> of a sprite of n rows drawn at (x, y) that fall
\* inside the grid, and the pixel of a cell.
CellsInGrid(x, y, n) ==
    { c \in (0..7) \X (0..(n - 1)) : x + c[1] < 64 /\ y + c[2] < 32 }

PixelOf(x, y, c) == 64 * (y + c[2]) + (x + c[1])

\* The draw instruction at the program counter, when there is one whose
\* sprite lies in the memory.
AtDraw ==
    /\ ~fault
    /\ ~InstructionNewPanics(program_counter)
    /\ InstructionNew(heap, program_counter).op = "DrawSprite"
    /\ index + InstructionNew(heap, program_counter).sprite_height <= 4096

\* The framebuffer from, after that instruction's sprite is drawn at its
\* coordinate: [bits, is_collision].
DrawnOn(from) ==
    LET i == InstructionNew(heap, program_counter)
    IN  render_sprite(from, general[i.register_x], general[i.register_y],
                      get_sprite(heap, index, i.sprite_height))

\* C18: drawing a sprite twice at the same coordinate restores every pixel of
\* any framebuffer; on the all-unset framebuffer, when a set bit of the sprite
\* lands inside the grid, the first draw reports no collision and the second
\* reports one.
C18_DrawTwiceRestores ==
    AtDraw =>
        LET i == InstructionNew(heap, program_counter)
            lands == \E c \in CellsInGrid(general[i.register_x], general[i.register_y],
                                          i.sprite_height) :
                        SpriteBit(heap, index, c[2], c[1])
            first == DrawnOn(bits)
            second == DrawnOn(first.bits)
        IN  /\ second.bits = bits
            /\ (bits = {} /\ lands) =>
                    /\ first.bits # {}
                    /\ first.is_collision = FALSE
                    /\ second.is_collision = TRUE
                    /\ second.bits = {}

\* The second of two draws of the same sprite at the same coordinate, the
\* first of them on the all-unset framebuffer.
C18_Witness ==
    /\ Completed("DrawSprite")
    /\ AtDraw
    /\ executed = InstructionNew(heap, program_counter)
    /\ executed.register_x = 0
    /\ steps = 9
    /\ before.bits # {}
    /\ DrawnOn({}).bits = before.bits
    /\ bits = {}
    /\ general[FLAG_REGISTER_IDX] = 1

\* The coordinate and the height of the draw instruction tick executed.
DrawX == before.general[executed.register_x]
DrawY == before.general[executed.register_y]
DrawN == executed.sprite_height

\* C19: a draw changes only pixels (px, py) of the grid with x <= px < x + 8
\* and y <= py < y + height; the rest of the sprite is dropped: no pixel
\* changes on the opposite edge, no fault when the sprite lies in the memory,
\* no collision without a set pixel of the grid under a set bit.
C19_DrawClipsAtEdges ==
    /\ bits \subseteq 0..(64 * 32 - 1)
    /\ Completed("DrawSprite") =>
            /\ \A p \in (bits \ before.bits) \cup (before.bits \ bits) :
                    /\ DrawX <= p % 64 /\ p % 64 < DrawX + 8
                    /\ DrawY <= p \div 64 /\ p \div 64 < DrawY + DrawN
            /\ general[FLAG_REGISTER_IDX] = 1 =>
                    \E c \in CellsInGrid(DrawX, DrawY, DrawN) :
                        /\ PixelOf(DrawX, DrawY, c) \in before.bits
                        /\ SpriteBit(before.heap, before.index, c[2], c[1])
    /\ (executed.op = "DrawSprite" /\ before.index + DrawN <= 4096) => ~fault

\* A sprite of five rows drawn on the last pixel of the grid.
C19_Witness ==
    /\ Completed("DrawSprite")
    /\ DrawX = 63
    /\ DrawY = 31
    /\ DrawN = 5
    /\ SpriteBit(before.heap, before.index, 0, 1)
    /\ SpriteBit(before.heap, before.index, 1, 0)
    /\ bits # before.bits

\* C20: after DXYN every pixel of the grid under the sprite is its old value
\* XOR the bit of the sprite over it (rows memory[I..], most significant bit
\* leftmost), and V15 is 1 when a pixel that was set lies under a set bit and
\* 0 when none does, so 0 for N = 0.
C20_DrawXorsAndFlags ==
    Completed("DrawSprite") =>
        /\ \A c \in CellsInGrid(DrawX, DrawY, DrawN) :
                (PixelOf(DrawX, DrawY, c) \in bits)
                    = ((PixelOf(DrawX, DrawY, c) \in before.bits)
                        # SpriteBit(before.heap, before.index, c[2], c[1]))
        /\ general[FLAG_REGISTER_IDX] =
                (IF \E c \in CellsInGrid(DrawX, DrawY, DrawN) :
                        /\ PixelOf(DrawX, DrawY, c) \in before.bits
                        /\ SpriteBit(before.heap, before.index, c[2], c[1])
                 THEN 1 ELSE 0)

\* A draw that unsets some pixels and sets others.
C20_Witness ==
    /\ Completed("DrawSprite")
    /\ DrawN = 15
    /\ general[FLAG_REGISTER_IDX] = 1
    /\ before.bits \ bits # {}
    /\ bits \ before.bits # {}

\* The big-endian word at the program counter, and its nibble k (0 the lowest).
FetchedWord == 256 * ByteAt(heap, program_counter) + ByteAt(heap, program_counter + 1)

Nibble(word, k) == (word \div Pow2(4 * k)) % 16

\* Each operand of the instruction i is the part of the word it is named for.
OperandsMatch(i, word) ==
    \A field \in DOMAIN i :
        CASE field \in {"register", "register_x", "register_to", "max_register"} ->
                i[field] = Nibble(word, 2)
          [] field \in {"register_y", "register_from"} -> i[field] = Nibble(word, 1)
          [] field = "sprite_height" -> i[field] = word % 16
          [] field \in {"value", "mask"} -> i[field] = word % 256
          [] field = "address" -> i[field] = word % 4096
          [] field = "opcode" -> i[field] = word
          [] field = "op" -> TRUE

\* The word is one of the operations of the instruction set.
KnownOperation(word) ==
    CASE Nibble(word, 3) = 0 -> word % 4096 \in {0, 222, 224, 238}
      [] Nibble(word, 3) = 8 -> word % 16 \in (0..7) \cup {14}
      [] Nibble(word, 3) = 14 -> word % 256 \in {158, 161}
      [] Nibble(word, 3) = 15 -> word % 256 \in {7, 10, 21, 24, 30, 41, 51, 85, 101}
      [] OTHER -> TRUE

\* C21: decoding any of the 65536 words at an offset inside the memory is no
\* fault and gives one instruction, the same on every decode, whose register
\* operands are the X and Y nibbles and whose immediates are the low 4, 8 or
\* 12 bits; it gives Unimplemented, with the whole word, exactly for the words
\* that are no known operation.
C21_DecodeIsTotal ==
    /\ ~fault
    /\ executed.op # "None" =>
            /\ executed = InstructionNew(heap, program_counter)
            /\ OperandsMatch(executed, FetchedWord)
            /\ (executed.op = "Unimplemented") = ~KnownOperation(FetchedWord)

\* 0x8AB9, a word of family 8 that is no operation.
C21_Witness ==
    /\ FetchedWord = 35513
    /\ executed = [op |-> "Unimplemented", opcode |-> 35513]

\* C30: every word 5XYN decodes to SkipIfRegistersEq on X and Y and every word
\* 9XYN to SkipIfRegistersNe on X and Y, whatever N is.
C30_RegisterSkipsIgnoreLowNibble ==
    executed.op # "None" =>
        /\ Nibble(FetchedWord, 3) = 5 =>
                executed = [op |-> "SkipIfRegistersEq",
                            register_x |-> Nibble(FetchedWord, 2),
                            register_y |-> Nibble(FetchedWord, 1)]
        /\ Nibble(FetchedWord, 3) = 9 =>
                executed = [op |-> "SkipIfRegistersNe",
                            register_x |-> Nibble(FetchedWord, 2),
                            register_y |-> Nibble(FetchedWord, 1)]

\* 0x9ABF decoded.
C30_Witness ==
    /\ FetchedWord = 39615
    /\ executed = [op |-> "SkipIfRegistersNe", register_x |-> 10, register_y |-> 11]

\* C27: the machine built from a program of at most 3584 bytes holds the
\* program from 0x200 on, the 80 bytes of the glyph table from 0x050 on and 0
\* in every other byte; its program counter is 0x200; its general registers,
\* its index register and both timers are 0, its stack is empty and no pixel
\* is set.
C27_InitialState ==
    (steps = 0 /\ ~fault /\ executed.op = "None") =>
        /\ Len(loaded) <= 3584
        /\ \A a \in 0..4095 :
                ByteAt(heap, a) =
                    (IF a >= 512 /\ a < 512 + Len(loaded) THEN loaded[a - 512 + 1]
                     ELSE IF a >= 80 /\ a < 160 THEN FONT_SIGILS[a - 80 + 1]
                     ELSE 0)
        /\ DOMAIN heap \subseteq 0..4095
        /\ program_counter = 512
        /\ \A r \in 0..15 : general[r] = 0
        /\ DOMAIN general = 0..15
        /\ index = 0
        /\ timers.delay = 0
        /\ timers.sound = 0
        /\ stack.pointer = 0
        /\ bits = {}

\* The machine built from a program that fills the program region.
C27_Witness ==
    /\ steps = 0
    /\ executed.op = "None"
    /\ Len(loaded) = 3584
    /\ loaded[3584] = 1
    /\ ByteAt(heap, 4095) = 1
    /\ loaded[255] = 0
    /\ ByteAt(heap, 766) = 0
    /\ ByteAt(heap, 80) = 240
    /\ ByteAt(heap, 159) = 128

\* C22: a call of tick on a word that decodes to Unimplemented is no fault; it
\* adds 2 to the program counter, advances the timers once and leaves the
\* general registers, the index register, the memory, the stack and the
\* framebuffer as they were.
C22_UnimplementedIsNoOp ==
    executed.op = "Unimplemented" =>
        /\ ~fault
        /\ program_counter = before.program_counter + 2
        /\ AdvancedOnce(before.timers, timers)
        /\ general = before.general
        /\ index = before.index
        /\ heap = before.heap
        /\ stack = before.stack
        /\ bits = before.bits

\* An unimplemented word of family 0xF executed with registers, index, pixels,
\* delay timer and stack all set.
C22_Witness ==
    /\ Completed("Unimplemented")
    /\ executed.opcode = 61695
    /\ before.general[0] = 3
    /\ before.index # 0
    /\ before.bits # {}
    /\ before.stack.pointer = 1
    /\ before.timers.delay = 3
    /\ program_counter = before.program_counter + 2

\* C29: 7XNN stores (VX + NN) mod 256 into VX and leaves every other general
\* register as it was, V15 among them when X is not 15, whether or not the sum
\* exceeds 255.
C29_AddValueTouchesNoFlag ==
    Completed("RegisterValueAdd") =>
        general = [before.general EXCEPT
                      ![executed.register] =
                            (before.general[executed.register] + executed.value) % 256]

C29_Witness ==
    /\ Completed("RegisterValueAdd")
    /\ executed.register = 0
    /\ before.general[0] = 255
    /\ executed.value = 3
    /\ before.general[FLAG_REGISTER_IDX] = 255
    /\ general[0] = 2
    /\ general[FLAG_REGISTER_IDX] = 255

\* C26: after every call of tick that returned, the program counter is a byte
\* address of the memory, 0 <= pc < 4096.
C26_CounterStaysInMemory ==
    (~fault /\ steps > 0) => program_counter \in 0..(MEMORY_SIZE - 1)

\* The bytes of the memory outside first..last are as the call of tick found them.
OtherBytesKept(first, last) ==
    /\ DOMAIN heap \subseteq 0..(MEMORY_SIZE - 1)
    /\ \A a \in (0..(MEMORY_SIZE - 1)) \ (first..last) :
            ByteAt(heap, a) = ByteAt(before.heap, a)

\* The index register after FX55 and FX65 that found it at from.
IndexAfterBulk(from, max_register) ==
    IF quirks.is_static_dump_index THEN from ELSE from + max_register + 1

\* C23: after FX55 with the index register at I, memory[I + k] = Vk for every k
\* in 0..X, every other byte of the memory and every general register is as
\* before, and the index register is I + X + 1 with the index quirk inactive
\* and I with the index quirk active.
C23_DumpStoresRegisters ==
    Completed("RegistersDump") =>
        /\ \A k \in 0..executed.max_register :
                ByteAt(heap, before.index + k) = before.general[k]
        /\ OtherBytesKept(before.index, before.index + executed.max_register)
        /\ general = before.general
        /\ index = IndexAfterBulk(before.index, executed.max_register)

\* FF55 into the last sixteen bytes of the memory with the index quirk
\* inactive: the index register ends one past the memory.
C23_Witness ==
    /\ Completed("RegistersDump")
    /\ executed.max_register = FLAG_REGISTER_IDX
    /\ before.index = MEMORY_SIZE - GENERAL_REGISTER_COUNT
    /\ ~quirks.is_static_dump_index
    /\ before.general[0] = 255
    /\ ByteAt(before.heap, MEMORY_SIZE - 1) = 0
    /\ ByteAt(heap, MEMORY_SIZE - GENERAL_REGISTER_COUNT) = 255
    /\ ByteAt(heap, MEMORY_SIZE - 1) = 200
    /\ index = MEMORY_SIZE

\* The general registers, each replaced by its complement.
Scrambled == [r \in 0..(GENERAL_REGISTER_COUNT - 1) |-> 255 - general[r]]

\* C24: after FX65 with the index register at I, Vk = memory[I + k] for the
\* registers k in 0..X, the registers X+1..15 and the whole memory are as
\* before, and the index register has advanced by X + 1 unless the index quirk
\* is active; and FX65 run after FX55 with the index register back at the value
\* FX55 found, whatever the registers hold by then, gives V0..VX the dumped
\* values again.
C24_LoadIsInverseOfDump ==
    /\ Completed("RegistersLoad") =>
            /\ \A k \in 0..executed.max_register :
                    general[k] = ByteAt(before.heap, before.index + k)
            /\ \A k \in (executed.max_register + 1)..(GENERAL_REGISTER_COUNT - 1) :
                    general[k] = before.general[k]
            /\ heap = before.heap
            /\ index = IndexAfterBulk(before.index, executed.max_register)
    /\ Completed("RegistersDump") =>
            LET w == ExecRegistersLoad([Working EXCEPT !.general = Scrambled,
                                                       !.index = before.index],
                                       executed.max_register)
            IN  /\ ~w.panic
                /\ \A k \in 0..executed.max_register : w.general[k] = before.general[k]

\* F155 at the start of the program with the index quirk active, then FF65
\* from the same index value: V0 and V1 get the dumped bytes back, V2..V15 the
\* bytes that follow them in the program region.
C24_Witness ==
    /\ Completed("RegistersLoad")
    /\ executed.max_register = FLAG_REGISTER_IDX
    /\ quirks.is_static_dump_index
    /\ before.index = OFFSET_DATA
    /\ ByteAt(before.heap, OFFSET_DATA) = 255
    /\ ByteAt(before.heap, OFFSET_DATA + 1) = 99
    /\ before.general[2] = 0
    /\ before.general[FLAG_REGISTER_IDX] = 200
    /\ general[0] = 255
    /\ general[1] = 99
    /\ general[2] = 97
    /\ general[FLAG_REGISTER_IDX] = 0
    /\ index = OFFSET_DATA

\* The addresses of the memory bytes a call of tick reads or writes when it
\* finds the machine b and decodes i: the two bytes of the instruction and the
\* bytes the instruction reaches through the index register.
Touched(i, b) ==
    { b.program_counter, b.program_counter + 1 }
        \cup CASE i.op \in {"RegistersDump", "RegistersLoad"} ->
                        b.index..(b.index + i.max_register)
               [] i.op = "HexToDecimal" -> b.index..(b.index + 2)
               [] i.op = "DrawSprite" -> b.index..(b.index + i.sprite_height - 1)
               [] OTHER -> {}

\* The instruction the next call of tick decodes, when its two bytes are in the
\* memory.
NextInstruction ==
    IF program_counter + 1 < MEMORY_SIZE THEN InstructionNew(heap, program_counter)
    ELSE [op |-> "None"]

\* The next call of tick panics.
NextCallPanics ==
    IF InstructionNewPanics(program_counter) THEN TRUE ELSE TickOutcome(<< >>).panic

\* C25: a call of tick that would read or write a byte at an address >= 4096,
\* by the fetch or through the index register in FX55, FX65, FX33 or DXYN, does
\* not return: every call that returned touched addresses below 4096 only, the
\* memory never holds a byte elsewhere, and from every state the call that
\* would touch such an address panics.
C25_AccessPastMemoryFaults ==
    /\ (~fault /\ steps > 0) => Touched(executed, before) \subseteq 0..(MEMORY_SIZE - 1)
    /\ DOMAIN heap \subseteq 0..(MEMORY_SIZE - 1)
    /\ (~fault /\ ~(Touched(NextInstruction, Found(<< >>)) \subseteq 0..(MEMORY_SIZE - 1))) =>
            NextCallPanics

\* F165 with the index register at the last byte of the memory: the second
\* byte would be read at 4096 and the call panics.
C25_Witness ==
    /\ fault
    /\ executed.op = "RegistersLoad"
    /\ executed.max_register = 1
    /\ before.index = MEMORY_SIZE - 1
    /\ before.program_counter + 1 < MEMORY_SIZE

\* C28: FX33 stores the decimal digits of VX at I, I + 1 and I + 2, hundreds
\* first, each in 0..9 and together worth VX, and leaves the index register,
\* the general registers and every other byte of the memory as they were.
C28_DecimalDigits ==
    Completed("HexToDecimal") =>
        LET hundreds == ByteAt(heap, before.index)
            tens == ByteAt(heap, before.index + 1)
            ones == ByteAt(heap, before.index + 2)
        IN  /\ {hundreds, tens, ones} \subseteq 0..9
            /\ 100 * hundreds + 10 * tens + ones = before.general[executed.register]
            /\ index = before.index
            /\ general = before.general
            /\ OtherBytesKept(before.index, before.index + 2)

\* 123 stored into the last three bytes of the memory.
C28_Witness ==
    /\ Completed("HexToDecimal")
    /\ before.general[executed.register] = 123
    /\ before.index = MEMORY_SIZE - 3
    /\ ByteAt(heap, MEMORY_SIZE - 3) = 1
    /\ ByteAt(heap, MEMORY_SIZE - 2) = 2
    /\ ByteAt(heap, MEMORY_SIZE - 1) = 3

====
